---- MODULE Spec2Model ----
(***************************************************************************)
(* The MySQL HandshakeV10 packet codec of                                  *)
(* pkg/proxy/integrations/mysqlparser/handshakeV10Packet.go:               *)
(* decodeMySQLHandshakeV10 (bytes -> packet | error) and                   *)
(* encodeHandshakePacket (packet -> bytes | error).                        *)
(*                                                                         *)
(* Bytes are naturals 0..255; a []byte and a Go string are both sequences  *)
(* of bytes (string(b) and WriteString copy the bytes unchanged).  Decode  *)
(* is modelled checkpoint by checkpoint: `data` is the remaining slice,    *)
(* `dec` the packet under construction, `pc` the next checkpoint.  A slice *)
(* expression whose bounds exceed the slice is a run-time panic.           *)
(* The explored 32-bit values keep bit 31 clear, the range of the model    *)
(* checker's integers; no operation of the codec treats that bit apart.    *)
(***************************************************************************)
EXTENDS Integers, Sequences, FiniteSets, TLC

VARIABLES packet,   \* the record handed to encodeHandshakePacket
          src,      \* where `wire` comes from: "record", "encoded", "prefix", "raw"
          wire,     \* the byte buffer produced by encode / handed to decode
          data,     \* decode: the remaining slice
          dec,      \* decode: the packet being filled in
          pc,       \* position of the run
          outcome,  \* "" while running; "ok"; an error message; "panic"
          panicAt   \* source line of the panicking slice expression, 0 if none

vars == <<packet, src, wire, data, dec, pc, outcome, panicAt>>

----------------------------------------------------------------------------
(* Bounds of the explored inputs *)

\* longest auth_plugin_data handed to encode (one past the 1-byte length range)
MaxAuthDataLen == 256
\* longest tail that follows the reserved window of a hand-built buffer
MaxTail == 4

----------------------------------------------------------------------------
(* Program constants *)

\* CLIENT_PLUGIN_AUTH, the mask 0x800000
ClientPluginAuth == 8388608
\* bytes of auth-plugin-data-part-1
AuthDataPart1Len == 8
\* encode emits the length byte and part 2 only from this length on
AuthDataPart2Min == 21

ErrTooShort == "handshake packet too short"
ErrServerVersion == "malformed handshake packet: missing null terminator for ServerVersion"
ErrConnectionID == "handshake packet too short for ConnectionID"
ErrAuthPluginData == "handshake packet too short for AuthPluginData"
ErrFlags == "handshake packet too short for flags"
ErrAuthPluginDataLen == "handshake packet too short for AuthPluginDataLen"
ErrAuthPluginName == "handshake packet too short for AuthPluginName"
ErrNameTerminator == "malformed handshake packet: missing null terminator for AuthPluginName"
ErrEncodeAuthData == "auth plugin data too short"

TooShortErrors ==
    {ErrTooShort, ErrConnectionID, ErrAuthPluginData, ErrFlags,
     ErrAuthPluginDataLen, ErrAuthPluginName}
MissingTerminatorErrors == {ErrServerVersion, ErrNameTerminator}

----------------------------------------------------------------------------
(* Byte and slice helpers *)

\* s[n:] for n <= len(s)
Drop(s, n) == SubSeq(s, n + 1, Len(s))
\* s[:n] for n <= len(s)
Take(s, n) == SubSeq(s, 1, n)
\* make([]byte, n)
Zeros(n) == [i \in 1..n |-> 0]

\* bytes.IndexByte(s, c): 0-based index of the first c in s, -1 if none
IndexByte(s, c) ==
    IF \E i \in 1..Len(s) : s[i] = c
    THEN (CHOOSE i \in 1..Len(s) : s[i] = c /\ \A j \in 1..(i - 1) : s[j] # c) - 1
    ELSE -1

\* binary.LittleEndian.Uint16(b[:2])
Uint16(b) == b[1] + 256 * b[2]

\* binary.LittleEndian.Uint32(b[:4])
Uint32(b) == b[1] + 256 * b[2] + 65536 * b[3] + 16777216 * b[4]

\* binary.Write(buf, binary.LittleEndian, uint16(v))
PutUint16(v) == <<v % 256, (v \div 256) % 256>>

\* binary.Write(buf, binary.LittleEndian, v) for a uint32 v
PutUint32BE(v) ==
    <<(v \div 16777216) % 256, (v \div 65536) % 256, (v \div 256) % 256, v % 256>>
PutUint32(v) ==
    <<v % 256, (v \div 256) % 256, (v \div 65536) % 256, (v \div 16777216) % 256>>

\* flags & 0x800000 != 0
HasPluginAuth(flags) == (flags \div ClientPluginAuth) % 2 = 1

\* uint32(lower) | uint32(upper)<<16 : the halves occupy disjoint bits
CombineFlags(lower, upper) == lower + 65536 * upper

\* min(a, b)
min(a, b) == IF a < b THEN a ELSE b

\* &HandshakeV10Packet{} : the zero value
ZeroPacket ==
    [ProtocolVersion |-> 0, ServerVersion |-> <<>>, ConnectionID |-> 0,
     AuthPluginData |-> <<>>, CapabilityFlags |-> 0, CharacterSet |-> 0,
     StatusFlags |-> 0, AuthPluginName |-> <<>>]

----------------------------------------------------------------------------
(* encodeHandshakePacket *)

\* len(packet.AuthPluginData) < 8
AuthDataTooShortOffByOne(p) == Len(p.AuthPluginData) < AuthDataPart1Len + 1
AuthDataTooShort(p) == Len(p.AuthPluginData) < AuthDataPart1Len

\* the gate of the length byte and of part 2
WritesPart2(p) ==
    HasPluginAuth(p.CapabilityFlags) /\ Len(p.AuthPluginData) >= AuthDataPart2Min

\* byte(len(packet.AuthPluginData)) or 0x00
AuthDataLenByte(p) == IF WritesPart2(p) THEN Len(p.AuthPluginData) % 256 ELSE 0

\* the gate of the auth-plugin name
WritesNameLengthGated(p) == WritesPart2(p)
WritesName(p) == HasPluginAuth(p.CapabilityFlags)

\* everything written up to and including the upper capability half
EncodeHeader(p) ==
    <<p.ProtocolVersion>> \o p.ServerVersion \o <<0>>
    \o PutUint32(p.ConnectionID)
    \o Take(p.AuthPluginData, AuthDataPart1Len) \o <<0>>
    \o PutUint16(p.CapabilityFlags % 65536)
    \o <<p.CharacterSet>>
    \o PutUint16(p.StatusFlags)
    \o PutUint16((p.CapabilityFlags \div 65536) % 65536)

\* everything written after the upper capability half
EncodeTrailer(p) ==
    <<AuthDataLenByte(p)>> \o Zeros(10)
    \o (IF WritesPart2(p) THEN Drop(p.AuthPluginData, AuthDataPart1Len) ELSE <<>>)
    \o (IF WritesName(p) THEN p.AuthPluginName \o <<0>> ELSE <<>>)

\* the (bytes, error) pair returned; bytes is nil on error
encodeHandshakePacket(p) ==
    IF AuthDataTooShort(p)
    THEN [bytes |-> <<>>, err |-> ErrEncodeAuthData]
    ELSE [bytes |-> EncodeHeader(p) \o EncodeTrailer(p), err |-> ""]

----------------------------------------------------------------------------
(* The inputs explored *)

MySQL == <<77, 121, 83, 81, 76>>
MysqlNativePassword ==
    <<109, 121, 115, 113, 108, 95, 110, 97, 116, 105, 118, 101, 95,
      112, 97, 115, 115, 119, 111, 114, 100>>

\* an auth_plugin_data of n bytes; zero bytes occur in both parts
AuthData(n) == [i \in 1..n |-> (5 * i + 3) % 11]

AuthDataLens == {5, 8, 9, 20, 21, 22, 255} \cup (256..MaxAuthDataLen)

\* The records handed to encode.  encodeHandshakePacket takes a
\* models.MySQLHandshakeV10Packet, declared outside this file; it has the
\* fields of HandshakeV10Packet (lines 12-21) with the same types, as
\* spec.md section 3 gives them for the one record both operations share.
Records ==
    [ProtocolVersion : {10},
     ServerVersion   : {<<>>, MySQL},
     ConnectionID    : {1, 16909060},
     AuthPluginData  : {AuthData(n) : n \in AuthDataLens},
     CapabilityFlags : {255, 8388863, 2139092991},
     CharacterSet    : {33},
     StatusFlags     : {258},
     AuthPluginName  : {<<>>, MysqlNativePassword, <<97, 0, 98>>}]

\* a hand-built buffer: a fixed well-formed head up to the upper capability
\* half (whose low byte is upperLo), then one byte `declared`, r zero bytes
\* and a tail
RawHead(upperLo) ==
    <<10>> \o MySQL \o <<0, 1, 0, 0, 0, 1, 2, 3, 4, 5, 6, 7, 8, 0,
                         255, 0, 33, 2, 0, upperLo, 0>>
Raw(upperLo, declared, r, tail) ==
    RawHead(upperLo) \o <<declared>> \o Zeros(r) \o tail

Tails == UNION {[1..n -> {0, 65}] : n \in 0..MaxTail}
DeclaredLens == {0, 5, 8, 9, 10, 11, 13, 255}

\* spec.md section 8, concrete scenario A, byte for byte
ScenarioA == Raw(0, 0, 10, MysqlNativePassword \o <<0>>)

RawBuffers ==
    {Raw(u, d, r, t) : u \in {0, 128}, d \in DeclaredLens, r \in {9, 10}, t \in Tails}
    \cup {ScenarioA}

----------------------------------------------------------------------------
(* The runs: encode a record and decode the result or a strict prefix of    *)
(* it, or decode a hand-built buffer.                                       *)

Init ==
    /\ data = <<>>
    /\ dec = ZeroPacket
    /\ outcome = ""
    /\ panicAt = 0
    /\ \/ /\ packet \in Records
          /\ src = "record"
          /\ wire = <<>>
          /\ pc = "encode"
       \/ /\ packet = ZeroPacket
          /\ src = "raw"
          /\ wire \in RawBuffers
          /\ pc = "decode"

\* encodeHandshakePacket(packet)
Encode ==
    /\ pc = "encode"
    /\ LET r == encodeHandshakePacket(packet) IN
       /\ wire' = r.bytes
       /\ outcome' = r.err
       /\ pc' = IF r.err = "" THEN "encoded" ELSE "encodeFailed"
    /\ src' = "encoded"
    /\ UNCHANGED <<packet, data, dec, panicAt>>

\* the whole encoded packet reaches decode
Deliver ==
    /\ pc = "encoded"
    /\ pc' = "decode"
    /\ UNCHANGED <<packet, src, wire, data, dec, outcome, panicAt>>

\* only the first k bytes of the encoded packet reach decode
Truncate ==
    /\ pc = "encoded"
    /\ \E k \in 0..(Len(wire) - 1) : wire' = Take(wire, k)
    /\ src' = "prefix"
    /\ pc' = "decode"
    /\ UNCHANGED <<packet, data, dec, outcome, panicAt>>

\* return nil, fmt.Errorf(msg)
Fail(msg) ==
    /\ outcome' = msg
    /\ pc' = "done"
    /\ UNCHANGED <<packet, src, wire, data, dec, panicAt>>

\* a slice expression out of range at source line ln
Panic(ln) ==
    /\ outcome' = "panic"
    /\ panicAt' = ln
    /\ pc' = "done"
    /\ UNCHANGED <<packet, src, wire, data, dec>>

\* lines 24-29: the 4-byte minimum and ProtocolVersion
DecodeProtocolVersion ==
    /\ pc = "decode"
    /\ IF Len(wire) < 4
       THEN Fail(ErrTooShort)
       ELSE /\ dec' = [ZeroPacket EXCEPT !.ProtocolVersion = wire[1]]
            /\ data' = wire
            /\ pc' = "serverVersion"
            /\ UNCHANGED <<packet, src, wire, outcome, panicAt>>

\* lines 31-36: ServerVersion up to its terminator
DecodeServerVersion ==
    /\ pc = "serverVersion"
    /\ LET idx == IndexByte(Drop(data, 1), 0) IN
       IF idx = -1
       THEN Fail(ErrServerVersion)
       ELSE /\ dec' = [dec EXCEPT !.ServerVersion = SubSeq(data, 2, 1 + idx)]
            /\ data' = Drop(data, 1 + idx + 1)
            /\ pc' = "connectionID"
            /\ UNCHANGED <<packet, src, wire, outcome, panicAt>>

\* lines 38-42: ConnectionID
DecodeConnectionID ==
    /\ pc = "connectionID"
    /\ IF Len(data) < 4
       THEN Fail(ErrConnectionID)
       ELSE /\ dec' = [dec EXCEPT !.ConnectionID = Uint32(Take(data, 4))]
            /\ data' = Drop(data, 4)
            /\ pc' = "authPluginData"
            /\ UNCHANGED <<packet, src, wire, outcome, panicAt>>

\* lines 44-48: auth-plugin-data-part-1 and the filler
DecodeAuthPluginData ==
    /\ pc = "authPluginData"
    /\ IF Len(data) < 9
       THEN Fail(ErrAuthPluginData)
       ELSE /\ dec' = [dec EXCEPT !.AuthPluginData = Take(data, AuthDataPart1Len)]
            /\ data' = Drop(data, 9)
            /\ pc' = "flags"
            /\ UNCHANGED <<packet, src, wire, outcome, panicAt>>

\* lines 50-65: the check asks for 5 bytes, the reads take 2+1+2+2 = 7.
\* With 5 or 6 bytes left, data[:2] of line 62 is out of range when the
\* capacity of the caller's buffer ends with its length; when the capacity
\* reaches further that slice is taken and data[2:] of line 63 is out of range.
DecodeFlags ==
    /\ pc = "flags"
    /\ IF Len(data) < 5
       THEN Fail(ErrFlags)
       ELSE IF Len(data) < 7
       THEN \E ln \in {62, 63} : Panic(ln)
       ELSE /\ dec' = [dec EXCEPT
                          !.CharacterSet = data[3],
                          !.StatusFlags = Uint16(SubSeq(data, 4, 5)),
                          !.CapabilityFlags =
                              CombineFlags(Uint16(SubSeq(data, 1, 2)),
                                           Uint16(SubSeq(data, 6, 7)))]
            /\ data' = Drop(data, 7)
            /\ pc' = "pluginAuth"
            /\ UNCHANGED <<packet, src, wire, outcome, panicAt>>

\* bytes skipped after the upper capability half: 11 with CLIENT_PLUGIN_AUTH
\* (lines 68-72), 10 without (line 80)
ReservedSkipAlways11(flags) == 11
ReservedSkipSwapped(flags) == IF HasPluginAuth(flags) THEN 10 ELSE 11
ReservedSkip(flags) == IF HasPluginAuth(flags) THEN 11 ELSE 10

\* line 75: min(authPluginDataLen-8, len(data))
LenToReadFromZero(authPluginDataLen, rest) == min(authPluginDataLen, Len(rest))
LenToRead(authPluginDataLen, rest) ==
    min(authPluginDataLen - AuthDataPart1Len, Len(rest))

\* lines 67-81: the branch on CLIENT_PLUGIN_AUTH
DecodePluginAuth ==
    /\ pc = "pluginAuth"
    /\ LET skip == ReservedSkip(dec.CapabilityFlags) IN
       IF HasPluginAuth(dec.CapabilityFlags)
       THEN IF Len(data) < 11
            THEN Fail(ErrAuthPluginDataLen)
            ELSE LET authPluginDataLen == data[1]
                     rest == Drop(data, skip)
                     lenToRead == IF authPluginDataLen > AuthDataPart1Len
                                  THEN LenToRead(authPluginDataLen, rest)
                                  ELSE 0
                 IN /\ dec' = [dec EXCEPT !.AuthPluginData = @ \o Take(rest, lenToRead)]
                    /\ data' = Drop(rest, lenToRead)
                    /\ pc' = "authPluginName"
                    /\ UNCHANGED <<packet, src, wire, outcome, panicAt>>
       ELSE IF Len(data) < skip
            THEN Panic(80)
            ELSE /\ data' = Drop(data, skip)
                 /\ pc' = "authPluginName"
                 /\ UNCHANGED <<packet, src, wire, dec, outcome, panicAt>>

\* line 83: len(data) == 0
NameMissingNever(rest) == FALSE
NameMissing(rest) == Len(rest) = 0

\* lines 83-93: AuthPluginName up to its terminator
DecodeAuthPluginName ==
    /\ pc = "authPluginName"
    /\ IF NameMissing(data)
       THEN Fail(ErrAuthPluginName)
       ELSE LET idx == IndexByte(data, 0) IN
            IF idx = -1
            THEN Fail(ErrNameTerminator)
            ELSE /\ dec' = [dec EXCEPT !.AuthPluginName = Take(data, idx)]
                 /\ outcome' = "ok"
                 /\ pc' = "done"
                 /\ UNCHANGED <<packet, src, wire, data, panicAt>>

Next ==
    \/ Encode
    \/ Deliver
    \/ Truncate
    \/ DecodeProtocolVersion
    \/ DecodeServerVersion
    \/ DecodeConnectionID
    \/ DecodeAuthPluginData
    \/ DecodeFlags
    \/ DecodePluginAuth
    \/ DecodeAuthPluginName

Spec == Init /\ [][Next]_vars

----------------------------------------------------------------------------
(* Positions in `wire`, recovered from the decoded ServerVersion *)

\* bytes up to and including the upper capability half:
\* 1 + len(ServerVersion) + 1 + 4 + 9 + 7
UpperEnd(p) == Len(p.ServerVersion) + 22
\* auth-plugin-data-part-1 as it stands in the buffer
Part1(buf, p) == SubSeq(buf, Len(p.ServerVersion) + 7, Len(p.ServerVersion) + 14)
\* decode got past the branch on CLIENT_PLUGIN_AUTH
PastBranch == pc = "authPluginName" \/ (pc = "done" /\ outcome \in {"ok", ErrAuthPluginName, ErrNameTerminator})
\* the byte decode reads as authPluginDataLen
Declared == wire[UpperEnd(dec) + 1]
\* bytes left after the 11-byte window
Available == Len(wire) - UpperEnd(dec) - 11
\* the min() of line 75 shortens the read
Clamped ==
    /\ PastBranch
    /\ HasPluginAuth(dec.CapabilityFlags)
    /\ Declared - AuthDataPart1Len > Available

NoZero(s) == \A i \in 1..Len(s) : s[i] # 0

----------------------------------------------------------------------------
(* C1 *)

RoundTripRecord(p) ==
    /\ Len(p.AuthPluginData) >= 8
    /\ \/ HasPluginAuth(p.CapabilityFlags) /\ Len(p.AuthPluginData) \in 21..255
       \/ Len(p.AuthPluginData) = 8
    /\ ~HasPluginAuth(p.CapabilityFlags) => p.AuthPluginName = <<>>
    /\ NoZero(p.ServerVersion)
    /\ NoZero(p.AuthPluginName)

\* C1: for a record with at least 8 auth-data bytes, a consistent flag/length
\* combination and no zero byte in its strings, encode succeeds, decode of the
\* encoded bytes succeeds and the decoded record equals the record in every field.
C1_RoundTrip ==
    (src = "encoded" /\ RoundTripRecord(packet))
        => /\ pc # "encodeFailed"
           /\ pc = "done" => (outcome = "ok" /\ dec = packet)

C1_Witness ==
    /\ src = "encoded" /\ pc = "done" /\ outcome = "ok"
    /\ RoundTripRecord(packet)
    /\ Len(packet.AuthPluginData) = 255
    /\ packet.AuthPluginName = MysqlNativePassword
    /\ packet.ConnectionID = 16909060

----------------------------------------------------------------------------
(* C2 *)

\* C2: decode of a strict prefix of a valid encoded packet ends in a TooShort
\* or MissingTerminator error: no record, no panic.
C2_TruncationDetected ==
    (src = "prefix" /\ pc = "done")
        => outcome \in (TooShortErrors \cup MissingTerminatorErrors)

----------------------------------------------------------------------------
(* C3 *)

\* C3: on any buffer every slice decode takes lies within the remaining
\* bytes, so decode ends in a record or a structural error and never in a
\* panic; a buffer of fewer than 4 bytes yields the "too short" error.
C3_BoundsSafe ==
    /\ panicAt = 0
    /\ outcome # "panic"
    /\ (pc = "done" /\ src \in {"prefix", "raw"} /\ Len(wire) < 4) => outcome = ErrTooShort

----------------------------------------------------------------------------
(* C4 *)

\* C4 as stated: when the declared extra auth-data length exceeds the bytes
\* left after the 11-byte window, decode takes what is present and returns a
\* record.
C4_ClampReturnsRecord ==
    (pc = "done" /\ Clamped) => outcome = "ok"

\* C4 amended: when the declared extra auth-data length exceeds the bytes
\* left after the 11-byte window, decode appends exactly the bytes that are
\* present, without a panic, which leaves the buffer empty, and then returns
\* the "too short for AuthPluginName" error instead of a record.
C4_ClampThenNameError ==
    Clamped
        => /\ panicAt = 0
           /\ dec.AuthPluginData =
                  Part1(wire, dec) \o SubSeq(wire, UpperEnd(dec) + 12, Len(wire))
           /\ data = <<>>
           /\ pc = "done" => outcome = ErrAuthPluginName

C4_Witness ==
    /\ pc = "done" /\ Clamped
    /\ Available > 0
    /\ Len(dec.AuthPluginData) = AuthDataPart1Len + Available

----------------------------------------------------------------------------
(* C5 *)

ScenarioAHead ==
    /\ dec.ProtocolVersion = 10
    /\ dec.ServerVersion = MySQL
    /\ dec.ConnectionID = 1
    /\ dec.CharacterSet = 33
    /\ dec.StatusFlags = 2
    /\ dec.CapabilityFlags = 255

\* C5 as stated: scenario A decodes to protocol_version 10, server_version
\* "MySQL", connection_id 1, character_set 0x21, status_flags 2,
\* capability_flags 0x00FF and auth_plugin_name "mysql_native_password".
C5_ScenarioAName ==
    (wire = ScenarioA /\ src = "raw" /\ pc = "done")
        => (outcome = "ok" /\ ScenarioAHead /\ dec.AuthPluginName = MysqlNativePassword)

\* C5 amended: scenario A decodes to the same fields except that
\* auth_plugin_name is empty: CLIENT_PLUGIN_AUTH is clear, 10 bytes are
\* skipped and the name scan stops at once on the eleventh zero byte.
C5_ScenarioAEmptyName ==
    (wire = ScenarioA /\ src = "raw" /\ pc = "done")
        => /\ outcome = "ok"
           /\ ScenarioAHead
           /\ dec.AuthPluginData = <<1, 2, 3, 4, 5, 6, 7, 8>>
           /\ dec.AuthPluginName = <<>>

C5_Witness == wire = ScenarioA /\ src = "raw" /\ pc = "done" /\ outcome = "ok"

----------------------------------------------------------------------------
(* C6 *)

\* C6: encode fails, with "auth plugin data too short" and no bytes, exactly
\* when auth_plugin_data has fewer than 8 bytes; with 8 or more it succeeds
\* whatever the other fields are.
C6_EncodeFailsIffShort ==
    (pc \in {"encoded", "encodeFailed"})
        => /\ (pc = "encodeFailed") <=> (Len(packet.AuthPluginData) < 8)
           /\ pc = "encodeFailed" => (outcome = ErrEncodeAuthData /\ wire = <<>>)
           /\ pc = "encoded" => (outcome = "" /\ Len(wire) >= UpperEnd(packet) + 11)

C6_Witness ==
    pc = "encodeFailed" /\ Len(packet.AuthPluginData) = 5 /\ wire = <<>>

----------------------------------------------------------------------------
(* C7 *)

\* C7: with CLIENT_PLUGIN_AUTH clear decode reads no length byte: the name
\* scan starts exactly 10 bytes after the upper capability half and
\* auth_plugin_data is the 8 bytes of part 1; with the bit set part 2 starts
\* exactly 11 bytes after the upper capability half.
C7_FlagGatedBranch ==
    PastBranch
        => IF HasPluginAuth(dec.CapabilityFlags)
           THEN /\ Len(wire) - Len(data)
                      = UpperEnd(dec) + 11 + (Len(dec.AuthPluginData) - 8)
                /\ dec.AuthPluginData =
                      Part1(wire, dec)
                      \o SubSeq(wire, UpperEnd(dec) + 12,
                                UpperEnd(dec) + 11 + (Len(dec.AuthPluginData) - 8))
           ELSE /\ Len(wire) - Len(data) = UpperEnd(dec) + 10
                /\ dec.AuthPluginData = Part1(wire, dec)

C7_Witness ==
    /\ pc = "done" /\ outcome = "ok"
    /\ ~HasPluginAuth(dec.CapabilityFlags)
    /\ Declared > 8
    /\ Len(dec.AuthPluginName) > 0

----------------------------------------------------------------------------
(* C8 *)

\* C8: after the upper capability half encode writes, with the bit set and
\* 8 <= len(auth_plugin_data) < 21, one zero byte, 10 zero bytes, the name
\* and its terminator, and nothing of auth_plugin_data[8:]; with the bit
\* clear it writes exactly 11 zero bytes and no name.
C8_AsymmetricGating ==
    pc = "encoded"
        => LET after == Drop(wire, UpperEnd(packet)) IN
           /\ (HasPluginAuth(packet.CapabilityFlags) /\ Len(packet.AuthPluginData) < 21)
                  => after = Zeros(11) \o packet.AuthPluginName \o <<0>>
           /\ ~HasPluginAuth(packet.CapabilityFlags) => after = Zeros(11)

C8_Witness ==
    /\ pc = "encoded"
    /\ HasPluginAuth(packet.CapabilityFlags)
    /\ Len(packet.AuthPluginData) = 20
    /\ packet.AuthPluginName = MysqlNativePassword

----------------------------------------------------------------------------
(* C9 *)

\* C9: with the bit set and len(auth_plugin_data) >= 21, of any length, the
\* byte after the upper capability half equals len(auth_plugin_data) and the
\* bytes after the 10 reserved zeros are auth_plugin_data[8:].
C9_LengthByteIsFullLength ==
    (pc = "encoded" /\ HasPluginAuth(packet.CapabilityFlags)
                    /\ Len(packet.AuthPluginData) >= 21)
        => /\ wire[UpperEnd(packet) + 1] = Len(packet.AuthPluginData)
           /\ SubSeq(wire, UpperEnd(packet) + 12,
                     UpperEnd(packet) + 11 + Len(packet.AuthPluginData) - 8)
                  = Drop(packet.AuthPluginData, 8)

----------------------------------------------------------------------------
(* C10 *)

\* C10: on every successful decode len(auth_plugin_data) is 8 when the bit is
\* clear or the declared length is at most 8, and the declared length
\* otherwise; whenever the min() shortens the read the buffer is left empty
\* and decode returns the "too short for AuthPluginName" error.
C10_AuthDataLenDetermined ==
    /\ outcome = "ok"
           => Len(dec.AuthPluginData) =
                  IF HasPluginAuth(dec.CapabilityFlags) /\ Declared > 8
                  THEN Declared
                  ELSE 8
    /\ (pc = "done" /\ Clamped) => (data = <<>> /\ outcome = ErrAuthPluginName)

C10_Witness ==
    /\ outcome = "ok"
    /\ src = "raw"
    /\ HasPluginAuth(dec.CapabilityFlags)
    /\ Declared = 11
    /\ Len(dec.AuthPluginData) = 11

====
